---- MODULE Spec2Model ----
(***************************************************************************)
(* Model of the mtg-elt loaders.                                           *)
(*                                                                         *)
(*   load/edhrec.py    call_edhrec_api (tenacity retry) and the commander  *)
(*                     fan-out get_commander_specific_data      -> Spec    *)
(*   load/scryfall.py  _process_scryfall_cards (lru_cache, filter and      *)
(*                     projection of the bulk dataset)    -> SpecScryfall  *)
(*                                                                         *)
(* Python values are modelled by what the code can observe of them: a      *)
(* dict is a function from its keys, None is PyNone, an exception is a     *)
(* record carrying its class.                                              *)
(***************************************************************************)
EXTENDS Integers, Sequences, FiniteSets, TLC

VARIABLES
    \* ---- load/edhrec.py ----
    input,                  \* the records card_base_data will deliver, as delivered
    stub,                   \* which stub EDHRec client the source was built with
    cards,                  \* the same record objects, as mutated in place
    idx,                    \* number of records the for loop has taken
    fi,                     \* position in enrichment_functions (1-based)
    attempt,                \* tenacity attempt_number of the current invocation
    outcome,                \* what the client did on the latest attempt
    calls,                  \* invocations of call_edhrec_api: <<func_name, card_name>>
    api_result,             \* value the latest call_edhrec_api returned
    err,                    \* exception that left get_commander_specific_data
    emitted,                \* records the generator has yielded
    processed_commanders,
    pc,
    \* ---- load/scryfall.py ----
    remote,                 \* the card objects behind the Oracle Cards download_uri
    cache,                  \* the lru_cache slot of _process_scryfall_cards
    index_requests,         \* GETs of https://api.scryfall.com/bulk-data
    download_requests,      \* GETs of the download_uri
    ncalls,                 \* calls of _process_scryfall_cards so far
    last                    \* how the latest call of _process_scryfall_cards ended

varsE == <<input, stub, cards, idx, fi, attempt, outcome, calls, api_result, err,
           emitted, processed_commanders, pc>>
varsS == <<remote, cache, index_requests, download_requests, ncalls, last>>
vars == <<input, stub, cards, idx, fi, attempt, outcome, calls, api_result, err,
          emitted, processed_commanders, pc,
          remote, cache, index_requests, download_requests, ncalls, last>>

-----------------------------------------------------------------------------
(* Bounds *)

MaxCards == 2               \* longest card_base_data sequence explored
MaxDataset == 2             \* longest downloaded dataset explored
MaxCalls == 3               \* calls of _process_scryfall_cards explored

-----------------------------------------------------------------------------
(* Python values *)

PyNone == [py |-> "None"]
PyDict(d) == [py |-> "dict", d |-> d]

\* dict.get(key, default)
Get(d, key, default) == IF key \in DOMAIN d THEN d[key] ELSE default

\* d.get(key) == value, for a value other than None
GetEquals(d, key, value) == key \in DOMAIN d /\ d[key] = value

\* d[key] = value
SetItem(d, key, value) ==
    [k \in (DOMAIN d) \cup {key} |-> IF k = key THEN value ELSE d[k]]

\* str.replace(old, new): every non-overlapping occurrence, left to right
RECURSIVE StrReplace(_, _, _)
StrReplace(s, old, new) ==
    IF Len(s) < Len(old) THEN s
    ELSE IF SubSeq(s, 1, Len(old)) = old
         THEN new \o StrReplace(SubSeq(s, Len(old) + 1, Len(s)), old, new)
         ELSE SubSeq(s, 1, 1) \o StrReplace(SubSeq(s, 2, Len(s)), old, new)

-----------------------------------------------------------------------------
(* load/edhrec.py: call_edhrec_api *)

NoError == [cls |-> "None"]
NoOutcome == [kind |-> "none"]
NoResult == [py |-> "unset"]

\* stop=stop_after_attempt(3)
MaxAttempts == 3

\* stop_after_attempt compared with > : one attempt too many
StopAfterAttemptOffByOne(attempt_number) == attempt_number > MaxAttempts

\* stop_after_attempt(2): gives up before the third attempt
StopAfterAttemptTwo(attempt_number) == attempt_number >= 2

StopAfterAttempt(attempt_number) == attempt_number >= MaxAttempts

\* retry=retry_if_exception_type(requests.exceptions.HTTPError)
RetryIfExceptionType(exc) == exc.cls = "HTTPError"

\* tenacity's RetryError(last_attempt), raised on exhaustion as reraise is not set
RetryError(exc) == [cls |-> "RetryError", last_attempt |-> exc]

\* What the retry decorator does with the outcome of attempt number n.
RetryDecision(o, n) ==
    IF o.kind = "return" THEN "return"
    ELSE IF ~RetryIfExceptionType(o.exc) THEN "reraise"
    ELSE IF StopAfterAttempt(n) THEN "retry_error"
    ELSE "retry"

\* The exception the decorated function lets out.
RaisedBy(o, n) ==
    IF RetryDecision(o, n) = "reraise" THEN o.exc ELSE RetryError(o.exc)

\* getattr(edhrec_client, func_name)(card_name) on the stub client
ClientResult(s, func_name, card_name) ==
    IF s = "const" THEN [x |-> 1]
    ELSE [op |-> func_name, card |-> card_name]

\* The exceptions an attempt can raise: the retried class and one outside it.
ClientErrors(func_name, n) ==
    { [cls |-> c, op |-> func_name, attempt |-> n] : c \in {"HTTPError", "ConnectionError"} }

-----------------------------------------------------------------------------
(* load/edhrec.py: get_commander_specific_data *)

enrichment_functions ==
    << "get_commander_data", "get_new_cards", "get_high_synergy_cards",
       "get_top_cards", "get_top_creatures", "get_top_instants",
       "get_top_sorceries", "get_top_enchantments", "get_top_artifacts",
       "get_top_mana_artifacts", "get_top_planeswalkers",
       "get_top_utility_lands", "get_top_lands" >>

\* the prefix mistyped without its underscore
FieldNameNoUnderscore(func_name) == StrReplace(func_name, "get", "")

\* field_name = func_name.replace("get_", "")
FieldName(func_name) == StrReplace(func_name, "get_", "")

\* truth value of card_details (None and the empty dict are falsy)
Truthy(v) == v # PyNone /\ DOMAIN v.d # {}

\* is_commander = card_details is not None
IsCommanderAnyDetails(card_data) == Get(card_data, "card_details", PyNone) # PyNone

\* card_details.get("commander", False) if card_details else False
IsCommander(card_data) ==
    LET card_details == Get(card_data, "card_details", PyNone)
    IN  IF Truthy(card_details) THEN Get(card_details.d, "commander", FALSE) ELSE FALSE

\* the loop body wrapped in try/except that logs and carries on
PropagateSwallowed == "loop"

\* An exception raised inside the for loop is not caught: the generator ends.
Propagate == "failed"

CardNames == {"Atraxa", "Island"}
CardDetailsValues ==
    {PyNone} \cup { PyDict(f) : f \in UNION { [S -> BOOLEAN] : S \in SUBSET {"commander"} } }
CardRecords ==
    { [k \in {"name"} |-> n] : n \in CardNames }
    \cup { [k \in {"name", "card_details"} |-> IF k = "name" THEN n ELSE cd] :
             n \in CardNames, cd \in CardDetailsValues }
Inputs == UNION { [1..n -> CardRecords] : n \in 0..MaxCards }

ScryfallIdle ==
    /\ remote = <<>>
    /\ cache = PyNone
    /\ index_requests = 0
    /\ download_requests = 0
    /\ ncalls = 0
    /\ last = NoOutcome

Init ==
    /\ input \in Inputs
    /\ stub \in {"const", "byop"}
    /\ cards = input
    /\ idx = 0
    /\ fi = 0
    /\ attempt = 0
    /\ outcome = NoOutcome
    /\ calls = <<>>
    /\ api_result = NoResult
    /\ err = NoError
    /\ emitted = <<>>
    /\ processed_commanders = 0
    /\ pc = "loop"
    /\ ScryfallIdle

\* for card_data in card_base_data: ... if is_commander:
ForNext ==
    /\ pc = "loop"
    /\ idx < Len(cards)
    /\ idx' = idx + 1
    /\ IF IsCommander(cards[idx + 1])
       THEN pc' = "enrich" /\ fi' = 1
       ELSE pc' = "loop" /\ fi' = fi
    /\ UNCHANGED <<input, stub, cards, attempt, outcome, calls, api_result, err,
                   emitted, processed_commanders>>
    /\ UNCHANGED varsS

\* api_result = call_edhrec_api(edhrec_client, func_name, card_name): entry
Invoke ==
    /\ pc = "enrich"
    /\ calls' = Append(calls, <<enrichment_functions[fi], cards[idx]["name"]>>)
    /\ attempt' = 0
    /\ outcome' = NoOutcome
    /\ pc' = "attempt"
    /\ UNCHANGED <<input, stub, cards, idx, fi, api_result, err, emitted,
                   processed_commanders>>
    /\ UNCHANGED varsS

\* one attempt: getattr(edhrec_client, func_name)(card_name) returns or raises
ClientCall ==
    /\ pc = "attempt"
    /\ attempt' = attempt + 1
    /\ LET func_name == calls[Len(calls)][1]
           card_name == calls[Len(calls)][2]
       IN  \/ outcome' = [kind |-> "return",
                          value |-> ClientResult(stub, func_name, card_name)]
           \/ \E e \in ClientErrors(func_name, attempt + 1) :
                  outcome' = [kind |-> "raise", exc |-> e]
    /\ pc' = "decide"
    /\ UNCHANGED <<input, stub, cards, idx, fi, calls, api_result, err, emitted,
                   processed_commanders>>
    /\ UNCHANGED varsS

\* the attempt returned: card_data[field_name] = api_result, then the next function
CallReturns ==
    /\ pc = "decide"
    /\ RetryDecision(outcome, attempt) = "return"
    /\ api_result' = outcome.value
    /\ cards' = [cards EXCEPT ![idx] =
                    SetItem(@, FieldName(enrichment_functions[fi]), outcome.value)]
    /\ IF fi < Len(enrichment_functions)
       THEN /\ fi' = fi + 1
            /\ pc' = "enrich"
            /\ UNCHANGED processed_commanders
       ELSE /\ fi' = fi
            /\ pc' = "loop"
            /\ processed_commanders' = processed_commanders + 1
    /\ UNCHANGED <<input, stub, idx, attempt, outcome, calls, err, emitted>>
    /\ UNCHANGED varsS

\* the attempt raised the retried class and attempts remain: wait, then try again
CallRetries ==
    /\ pc = "decide"
    /\ RetryDecision(outcome, attempt) = "retry"
    /\ pc' = "attempt"
    /\ UNCHANGED <<input, stub, cards, idx, fi, attempt, outcome, calls, api_result,
                   err, emitted, processed_commanders>>
    /\ UNCHANGED varsS

\* call_edhrec_api raises: nothing in the fan-out catches it
CallRaises ==
    /\ pc = "decide"
    /\ RetryDecision(outcome, attempt) \in {"reraise", "retry_error"}
    /\ err' = RaisedBy(outcome, attempt)
    /\ pc' = Propagate
    /\ UNCHANGED <<input, stub, cards, idx, fi, attempt, outcome, calls, api_result,
                   emitted, processed_commanders>>
    /\ UNCHANGED varsS

\* the for loop is exhausted: yield card_data (unbound if the loop never ran)
Yield ==
    /\ pc = "loop"
    /\ idx = Len(cards)
    /\ IF idx = 0
       THEN /\ err' = [cls |-> "UnboundLocalError"]
            /\ pc' = "failed"
            /\ UNCHANGED emitted
       ELSE /\ emitted' = Append(emitted, cards[idx])
            /\ pc' = "done"
            /\ UNCHANGED err
    /\ UNCHANGED <<input, stub, cards, idx, fi, attempt, outcome, calls, api_result,
                   processed_commanders>>
    /\ UNCHANGED varsS

Next ==
    \/ ForNext
    \/ Invoke
    \/ ClientCall
    \/ CallReturns
    \/ CallRetries
    \/ CallRaises
    \/ Yield

Spec == Init /\ [][Next]_vars

-----------------------------------------------------------------------------
(* load/scryfall.py *)

\* The bulk-data listings fetch_bulk_data may see.
OracleItem == [name |-> "Oracle Cards", download_uri |-> "L"]
DefaultItem == [name |-> "Default Cards", download_uri |-> "D"]
BulkIndexes ==
    { [data |-> <<OracleItem>>],
      [data |-> <<DefaultItem, OracleItem>>],
      [data |-> <<DefaultItem>>],
      [object |-> "list"] }

\* for item in bulk_data.get("data", []): first item named "Oracle Cards"
RECURSIVE FirstOracleUri(_)
FirstOracleUri(items) ==
    IF items = <<>> THEN PyNone
    ELSE IF GetEquals(Head(items), "name", "Oracle Cards")
         THEN [uri |-> Get(Head(items), "download_uri", PyNone)]
         ELSE FirstOracleUri(Tail(items))

\* get_default_cards_uri: the download_uri, or ValueError
GetDefaultCardsUri(bulk_data) ==
    LET found == FirstOracleUri(Get(bulk_data, "data", <<>>))
    IN  IF found = PyNone
        THEN [kind |-> "raise", exc |-> [cls |-> "ValueError"]]
        ELSE [kind |-> "return", value |-> found.uri]

\* The dict the comprehension builds: output field, and the card key it reads.
ProjectedFields ==
    << <<"oracle_id", "oracle_id">>, <<"name", "name">>, <<"scryfall_id", "id">>,
       <<"lang", "lang">>, <<"released_at", "released_at">>, <<"uri", "uri">>,
       <<"scryfall_uri", "scryfall_uri">>, <<"mana_cost", "mana_cost">>,
       <<"cmc", "cmc">>, <<"type_line", "type_line">>,
       <<"oracle_text", "oracle_text">>, <<"power", "power">>,
       <<"toughness", "toughness">>, <<"reserved", "reserved">>,
       <<"game_changer", "game_changer">>, <<"foil", "foil">>,
       <<"nonfoil", "nonfoil">>, <<"oversized", "oversized">>,
       <<"promo", "promo">>, <<"reprint", "reprint">>,
       <<"variation", "variation">>, <<"set_id", "set_id">>, <<"set", "set">>,
       <<"set_name", "set_name">>, <<"set_type", "set_type">>,
       <<"set_uri", "set_uri">>, <<"set_search_uri", "set_search_uri">>,
       <<"scryfall_set_uri", "scryfall_set_uri">>, <<"rulings_uri", "rulings_uri">>,
       <<"prints_search_uri", "prints_search_uri">>,
       <<"collector_number", "collector_number">>, <<"digital", "digital">>,
       <<"rarity", "rarity">>, <<"artist", "artist">>,
       <<"story_spotlight", "story_spotlight">>, <<"edhrec_rank", "edhrec_rank">> >>

Project(card) ==
    [f \in { ProjectedFields[k][1] : k \in DOMAIN ProjectedFields } |->
        LET k == CHOOSE j \in DOMAIN ProjectedFields : ProjectedFields[j][1] = f
        IN  Get(card, ProjectedFields[k][2], PyNone)]

\* the comprehension's condition on one card: "keep", "drop", or the exception
\*   card.get("legalities", {}).get("commander") == "legal"
\*   and "paper" in card.get("games")
CardCondition(card) ==
    LET legalities == Get(card, "legalities", <<>>)
    IN  IF ~GetEquals(legalities, "commander", "legal") THEN "drop"
        ELSE IF "games" \notin DOMAIN card THEN "TypeError"    \* "paper" in None
        ELSE IF \E i \in DOMAIN card["games"] : card["games"][i] = "paper" THEN "keep"
        ELSE "drop"

RECURSIVE Comprehension(_)
Comprehension(cards_data) ==
    IF cards_data = <<>> THEN <<>>
    ELSE (IF CardCondition(Head(cards_data)) = "keep"
          THEN <<Project(Head(cards_data))>> ELSE <<>>)
         \o Comprehension(Tail(cards_data))

\* Step 4 of _process_scryfall_cards: the filtered list, or the exception raised
FilterCards(cards_data) ==
    IF \E i \in DOMAIN cards_data : CardCondition(cards_data[i]) = "TypeError"
    THEN [kind |-> "raise", exc |-> [cls |-> "TypeError"]]
    ELSE [kind |-> "return", value |-> Comprehension(cards_data)]

\* a cache that is never consulted
CacheHitNever(c) == FALSE

\* functools.lru_cache(maxsize=1) on a function without arguments
CacheHit(c) == c # PyNone
CacheStore(result) == [py |-> "cached", value |-> result]

\* requests.get(...) / response.json() failing
NetworkErrors == { [cls |-> c] : c \in {"ConnectionError", "JSONDecodeError"} }

\* The card objects of a dataset: every combination of legalities and games.
LegalitiesValues ==
    { <<>>, [commander |-> "legal"], [commander |-> "not_legal"] }
GamesValues == { <<"paper">>, <<"arena">>, <<"arena", "paper">> }
OracleIds == <<"o1", "o2", "o3", "o4">>
CardObjects(i) ==
    LET keysets == { {"oracle_id"} \cup K : K \in SUBSET {"legalities", "games"} }
    IN  UNION { { [k \in ks |-> CASE k = "oracle_id" -> OracleIds[i]
                               [] k = "legalities" -> l
                               [] k = "games" -> g] :
                    l \in LegalitiesValues, g \in GamesValues } : ks \in keysets }
Datasets ==
    UNION { { d \in [1..n -> UNION { CardObjects(i) : i \in 1..n }] :
                \A i \in 1..n : d[i]["oracle_id"] = OracleIds[i] } : n \in 0..MaxDataset }

EdhrecIdle ==
    /\ input = <<>>
    /\ stub = "const"
    /\ cards = <<>>
    /\ idx = 0
    /\ fi = 0
    /\ attempt = 0
    /\ outcome = NoOutcome
    /\ calls = <<>>
    /\ api_result = NoResult
    /\ err = NoError
    /\ emitted = <<>>
    /\ processed_commanders = 0
    /\ pc = "idle"

InitScryfall ==
    /\ remote \in Datasets
    /\ cache = PyNone
    /\ index_requests = 0
    /\ download_requests = 0
    /\ ncalls = 0
    /\ last = NoOutcome
    /\ EdhrecIdle

\* _process_scryfall_cards() answered by lru_cache: the body does not run
CallCached ==
    /\ ncalls < MaxCalls
    /\ CacheHit(cache)
    /\ ncalls' = ncalls + 1
    /\ last' = [kind |-> "return", value |-> cache.value, stage |-> "cache"]
    /\ UNCHANGED <<remote, cache, index_requests, download_requests>>
    /\ UNCHANGED varsE

\* fetch_bulk_data raises (the request or response.json())
CallIndexFails ==
    /\ ncalls < MaxCalls
    /\ ~CacheHit(cache)
    /\ ncalls' = ncalls + 1
    /\ index_requests' = index_requests + 1
    /\ \E e \in NetworkErrors : last' = [kind |-> "raise", exc |-> e, stage |-> "index"]
    /\ UNCHANGED <<remote, cache, download_requests>>
    /\ UNCHANGED varsE

\* get_default_cards_uri raises ValueError: no "Oracle Cards" item
CallLookupFails ==
    /\ ncalls < MaxCalls
    /\ ~CacheHit(cache)
    /\ ncalls' = ncalls + 1
    /\ index_requests' = index_requests + 1
    /\ \E bulk_data \in BulkIndexes :
          /\ GetDefaultCardsUri(bulk_data).kind = "raise"
          /\ last' = [kind |-> "raise", exc |-> GetDefaultCardsUri(bulk_data).exc,
                      stage |-> "lookup"]
    /\ UNCHANGED <<remote, cache, download_requests>>
    /\ UNCHANGED varsE

\* the download raises (the request or response.json())
CallDownloadFails ==
    /\ ncalls < MaxCalls
    /\ ~CacheHit(cache)
    /\ \E bulk_data \in BulkIndexes : GetDefaultCardsUri(bulk_data).kind = "return"
    /\ ncalls' = ncalls + 1
    /\ index_requests' = index_requests + 1
    /\ download_requests' = download_requests + 1
    /\ \E e \in NetworkErrors : last' = [kind |-> "raise", exc |-> e, stage |-> "download"]
    /\ UNCHANGED <<remote, cache>>
    /\ UNCHANGED varsE

\* both requests succeed and Step 4 runs: the list is returned and cached, or
\* the comprehension raises and nothing is cached
CallProcesses ==
    /\ ncalls < MaxCalls
    /\ ~CacheHit(cache)
    /\ \E bulk_data \in BulkIndexes : GetDefaultCardsUri(bulk_data).kind = "return"
    /\ ncalls' = ncalls + 1
    /\ index_requests' = index_requests + 1
    /\ download_requests' = download_requests + 1
    /\ LET r == FilterCards(remote)
       IN  IF r.kind = "return"
           THEN /\ last' = [kind |-> "return", value |-> r.value, stage |-> "process"]
                /\ cache' = CacheStore(r.value)
           ELSE /\ last' = [kind |-> "raise", exc |-> r.exc, stage |-> "process"]
                /\ cache' = cache
    /\ UNCHANGED remote
    /\ UNCHANGED varsE

NextScryfall ==
    \/ CallCached
    \/ CallIndexFails
    \/ CallLookupFails
    \/ CallDownloadFails
    \/ CallProcesses

SpecScryfall == InitScryfall /\ [][NextScryfall]_vars

-----------------------------------------------------------------------------
(* Properties of load/edhrec.py, checked under Spec *)

\* The 13 operations and their field names as the specification lists them.
SpecOperations ==
    << <<"get_commander_data", "commander_data">>,
       <<"get_new_cards", "new_cards">>,
       <<"get_high_synergy_cards", "high_synergy_cards">>,
       <<"get_top_cards", "top_cards">>,
       <<"get_top_creatures", "top_creatures">>,
       <<"get_top_instants", "top_instants">>,
       <<"get_top_sorceries", "top_sorceries">>,
       <<"get_top_enchantments", "top_enchantments">>,
       <<"get_top_artifacts", "top_artifacts">>,
       <<"get_top_mana_artifacts", "top_mana_artifacts">>,
       <<"get_top_planeswalkers", "top_planeswalkers">>,
       <<"get_top_utility_lands", "top_utility_lands">>,
       <<"get_top_lands", "top_lands">> >>

SpecFieldNames == { SpecOperations[k][2] : k \in DOMAIN SpecOperations }

\* card_details is present, not null, and its commander entry is true
FlaggedCommander(rec) ==
    /\ "card_details" \in DOMAIN rec
    /\ rec["card_details"] # PyNone
    /\ "commander" \in DOMAIN rec["card_details"].d
    /\ rec["card_details"].d["commander"] = TRUE

RECURSIVE ExpectedCalls(_)
ExpectedCalls(recs) ==
    IF recs = <<>> THEN <<>>
    ELSE (IF FlaggedCommander(Head(recs))
          THEN [k \in DOMAIN SpecOperations |-> <<SpecOperations[k][1], Head(recs)["name"]>>]
          ELSE <<>>)
         \o ExpectedCalls(Tail(recs))

\* an exception of call_edhrec_api has left the fan-out
CallFailed == err.cls \in {"RetryError", "HTTPError", "ConnectionError"}

RaisedRetriedClass == outcome.kind = "raise" /\ outcome.exc.cls = "HTTPError"
RaisedOtherClass == outcome.kind = "raise" /\ outcome.exc.cls # "HTTPError"

\* C1: one invocation of call_edhrec_api makes at most 3 attempts, and an
\* attempt that raises an error outside requests' HTTPError is the last one:
\* that very error leaves the invocation, with no further attempt.
C1_BoundedRetry ==
    /\ [](attempt <= 3)
    /\ [][ (pc = "decide" /\ RaisedOtherClass)
             => (attempt' = attempt /\ calls' = calls /\ pc' = "failed"
                 /\ err' = outcome.exc) ]_vars

C1_Witness ==
    pc = "failed" /\ attempt = 3 /\ RaisedRetriedClass /\ err # NoError

\* C2: when all 3 attempts raise HTTPError, the fan-out receives the HTTPError
\* raised by the last attempt itself.
C2_LastErrorPropagates ==
    (pc = "failed" /\ attempt = 3 /\ RaisedRetriedClass) => err = outcome.exc

\* C3: an HTTPError on attempt 1 or 2 is followed by another attempt and
\* surfaces no error; an attempt numbered at most 3 that succeeds makes the
\* invocation return that attempt's result unmodified, without error.
C3_SuccessAfterRetries ==
    [][ /\ (pc = "decide" /\ RaisedRetriedClass /\ attempt < 3)
            => (pc' = "attempt" /\ err' = NoError /\ calls' = calls)
        /\ (pc = "decide" /\ outcome.kind = "return" /\ attempt <= 3)
            => (api_result' = outcome.value /\ err' = NoError /\ pc' # "failed"
                /\ calls' = calls) ]_vars

C3_Witness ==
    /\ pc \in {"enrich", "loop"}
    /\ attempt = 3
    /\ outcome.kind = "return"
    /\ api_result = ClientResult(stub, calls[Len(calls)][1], calls[Len(calls)][2])
    /\ err = NoError

\* C4: as long as no enrichment call has failed, the invocations made once the
\* loop has dealt with the first idx records are exactly, record by record in
\* input order, the 13 operations in list order with the record's name for a
\* flagged commander, and none for any other record.
C4_CallSequence ==
    (~CallFailed /\ pc \in {"loop", "done", "failed"})
        => calls = ExpectedCalls(SubSeq(input, 1, idx))

C4_Witness ==
    /\ pc = "done"
    /\ Len(input) = 2
    /\ FlaggedCommander(input[1])
    /\ ~FlaggedCommander(input[2])
    /\ Len(calls) = 13

\* C5: a flagged commander the loop has finished with carries, for each of the
\* 13 operations, the client's result under the operation name without get_;
\* exactly these 13 fields were added, name and card_details are as delivered.
C5_FieldsAttached ==
    \A i \in 1..idx :
        (FlaggedCommander(input[i]) /\ (i < idx \/ pc \in {"loop", "done"}))
            => /\ DOMAIN cards[i] = (DOMAIN input[i]) \cup SpecFieldNames
               /\ Cardinality(DOMAIN cards[i]) = Cardinality(DOMAIN input[i]) + 13
               /\ \A k \in DOMAIN SpecOperations :
                      cards[i][SpecOperations[k][2]]
                          = ClientResult(stub, SpecOperations[k][1], input[i]["name"])
               /\ \A f \in DOMAIN input[i] : cards[i][f] = input[i][f]

C5_Witness ==
    /\ pc = "done"
    /\ stub = "byop"
    /\ FlaggedCommander(input[idx])
    /\ emitted[1]["top_lands"] = [op |-> "get_top_lands", card |-> input[idx]["name"]]

\* C6: a run whose enrichment calls all succeed emits one record per input
\* record.
C6_OneOutputPerInput ==
    pc = "done" => Len(emitted) = Len(input)

\* C7: every emitted record is flagged as a commander.
C7_OnlyCommandersEmitted ==
    \A i \in DOMAIN emitted : FlaggedCommander(emitted[i])

\* C9: once an invocation of call_edhrec_api has failed, the fan-out has ended
\* with that failure: nothing has been emitted, and afterwards no operation is
\* invoked, no record is taken from the input and nothing is emitted.
C9_FailureAborts ==
    /\ [](err # NoError => (pc = "failed" /\ emitted = <<>>))
    /\ [][ (pc = "decide" /\ outcome.kind = "raise"
              /\ RetryDecision(outcome, attempt) # "retry") => err' # NoError ]_vars
    /\ [][ err # NoError
             => (calls' = calls /\ idx' = idx /\ emitted' = emitted
                 /\ attempt' = attempt) ]_vars

C9_Witness ==
    /\ pc = "failed"
    /\ err.cls = "RetryError"
    /\ idx = 2
    /\ processed_commanders = 1
    /\ emitted = <<>>

-----------------------------------------------------------------------------
(* Properties of load/scryfall.py, checked under SpecScryfall *)

\* commander legality is exactly "legal"
SpecLegal(card) ==
    /\ "legalities" \in DOMAIN card
    /\ "commander" \in DOMAIN card["legalities"]
    /\ card["legalities"]["commander"] = "legal"

\* the games include the paper channel
SpecPaper(card) ==
    /\ "games" \in DOMAIN card
    /\ \E i \in DOMAIN card["games"] : card["games"][i] = "paper"

RECURSIVE SpecFetched(_)
SpecFetched(cs) ==
    IF cs = <<>> THEN <<>>
    ELSE (IF SpecLegal(Head(cs)) /\ SpecPaper(Head(cs))
          THEN <<Project(Head(cs))>> ELSE <<>>)
         \o SpecFetched(Tail(cs))

\* C8: whatever the legalities and games fields of the downloaded cards
\* (absent ones included), the call returns the projections, in input order,
\* of exactly the cards that are commander-legal and available in paper.
C8_FilterEveryCombination ==
    (last.kind # "none" /\ last.stage = "process")
        => (last.kind = "return" /\ last.value = SpecFetched(remote))

\* C10 as stated: over any sequence of calls, failing ones included, the index
\* request and the download are each issued at most once.
C10_FetchedOnlyOnce ==
    index_requests <= 1 /\ download_requests <= 1

\* C10 amended: once a call has returned, the slot is filled and every later
\* call returns the memoized list without any request; a call that fetches and
\* returns does so with the slot empty, so at most one call ever does. (A
\* call that raises fills nothing, and the next call requests again.)
C10_FetchedOnceAfterSuccess ==
    /\ [][ cache # PyNone
             => (/\ index_requests' = index_requests
                 /\ download_requests' = download_requests
                 /\ cache' = cache
                 /\ (ncalls' # ncalls
                        => (last'.kind = "return" /\ last'.value = cache.value))) ]_vars
    /\ [][ (ncalls' # ncalls /\ last'.kind = "return")
             => (cache' # PyNone /\ cache'.value = last'.value
                 /\ (index_requests' # index_requests => cache = PyNone)) ]_vars

C10_Witness ==
    /\ cache # PyNone
    /\ ncalls = 3
    /\ index_requests = 2
    /\ download_requests = 1
    /\ last.stage = "cache"
    /\ Len(last.value) = 1

====
